---- MODULE Spec2Model ----
(***************************************************************************)
(* Model of the openpoker wire codec (src/protocol.go): the primitive      *)
(* field encodings, writeMessage, the Write* helpers, the msgTypes         *)
(* registry and ReadMsg, over byte streams held as sequences of 0..255.    *)
(***************************************************************************)
EXTENDS Integers, Sequences, FiniteSets, TLC

(* ---------------------------------------------------------------------- *)
(* Command tags (src/protocol.go, const block)                             *)
(* ---------------------------------------------------------------------- *)
GOOD == 0
LOGIN == 1
LOGOUT == 2
BAD == 255
START_GAME == 17
YOU_ARE == 31
YOUR_GAME == 39
SEAT_QUERY == 14
SEAT_INFO == 30
GAME_QUERY == 13
GAME_INFO == 18
JOIN == 8
NOTIFY_JOIN == 44
WATCH == 3
NOTIFY_CANCEL_GAME == 25
UNWATCH == 4
LEAVE == 9
NOTIFY_LEAVE == 45
NOTIFY_START_GAME == 23
NOTIFY_BUTTON == 35
NOTIFY_SB == 36
BET_REQ == 20
RAISE == 6
BALANCE_QUERY == 16
BALANCE == 33
FOLD == 7
NOTIFY_RAISE == 42
NOTIFY_BB == 37
NOTIFY_DRAW == 21
NOTIFY_SHARED == 22
NOTIFY_HAND == 27
NOTIFY_END_GAME == 24
SIT_OUT == 10
COME_BACK == 11
CHAT == 12
NOTIFY_CHAT == 43
GAME_STAGE == 29
SHOW_CARDS == 40
NOTIFY_WIN == 26
PLAYER_QUERY == 15
PLAYER_INFO == 19

GT_TEXAS_HOLDEM == 1

(* ---------------------------------------------------------------------- *)
(* Integer widths                                                          *)
(* ---------------------------------------------------------------------- *)
\* number of values of a uint8 (Cmd, Small, the text length byte, ...)
Uint8Mod == 256
\* number of values of a uint16 (the frame length and ReadMsg's counter)
Uint16Mod == 65536
\* 2^24 and 2^23: the significand range of a float32 (type Amount)
F32Top == 16777216
F32Low == 8388608

\* the one element of a singleton set: S is evaluated once
Only(S) == CHOOSE x \in S : TRUE

RECURSIVE Pow2(_)
Pow2(k) == IF k = 0 THEN 1 ELSE 2 * Pow2(k - 1)

RECURSIVE BitLen(_)
BitLen(n) == IF n = 0 THEN 0 ELSE 1 + BitLen(n \div 2)

\* a uint32 is held as its two 16-bit halves, so that every value fits
U32(n) == [hi |-> n \div Uint16Mod, lo |-> n % Uint16Mod]

\* conversion Id(uint32): reinterpretation as a two's complement int32
U32ToInt32(u) ==
    IF u.hi < 32768 THEN u.hi * Uint16Mod + u.lo
    ELSE (u.hi - Uint16Mod) * Uint16Mod + u.lo

\* the bits of an int32, as a uint32
Int32ToU32(i) ==
    IF i >= 0 THEN U32(i)
    ELSE LET n == (i + 2147483647) + 1
         IN  [hi |-> 32768 + n \div Uint16Mod, lo |-> n % Uint16Mod]

\* big-endian bytes of a uint32 (binary.Write of a 4-byte integer)
BE32(u) == << u.hi \div Uint8Mod, u.hi % Uint8Mod, u.lo \div Uint8Mod, u.lo % Uint8Mod >>

\* big-endian bytes of a uint16
BE16(n) == << (n \div Uint8Mod) % Uint8Mod, n % Uint8Mod >>

(* ---------------------------------------------------------------------- *)
(* float32 arithmetic of type Amount: a value is m * 2^e with              *)
(* 2^23 <= m < 2^24, or m = 0; every operation rounds to nearest, ties to  *)
(* even.                                                                   *)
(* ---------------------------------------------------------------------- *)
F32Zero == [m |-> 0, e |-> 0]

\* q with remainder r out of d, rounded to nearest even, renormalised
F32Round(q, r, d, e) ==
    LET up == (2 * r > d) \/ (2 * r = d /\ q % 2 = 1)
        qq == IF up THEN q + 1 ELSE q
    IN  IF qq = F32Top THEN [m |-> F32Low, e |-> e + 1] ELSE [m |-> qq, e |-> e]

\* conversion Amount(uint32)
F32FromU32(u) ==
    IF u.hi = 0 /\ u.lo = 0 THEN F32Zero
    ELSE IF u.hi < Uint8Mod
         THEN LET n == u.hi * Uint16Mod + u.lo
                  l == BitLen(n)
              IN  [m |-> n * Pow2(24 - l), e |-> l - 24]
         ELSE LET s == BitLen(u.hi) - 8
                  q == u.hi * Pow2(16 - s) + u.lo \div Pow2(s)
                  r == u.lo % Pow2(s)
              IN  F32Round(q, r, Pow2(s), s)

\* a / 100 in float32
F32Div100(a) ==
    IF a.m = 0 THEN F32Zero
    ELSE LET k == IF a.m * 128 < 100 * F32Top THEN 7 ELSE 6
             n == a.m * Pow2(k)
         IN  F32Round(n \div 100, n % 100, 100, a.e - k)

\* a * 100 in float32
F32Mul100(a) ==
    IF a.m = 0 THEN F32Zero
    ELSE LET p == a.m * 100
             s == IF p >= 1073741824 THEN 7 ELSE 6
         IN  F32Round(p \div Pow2(s), p % Pow2(s), Pow2(s), a.e + s)

\* conversion Big(float32): the fraction is discarded.  A value of 2^32 or
\* more has no uint32 and no case here; the amounts of the model stay below.
F32ToU32(a) ==
    CASE a.m = 0 -> U32(0)
      [] a.m # 0 /\ a.e < -23 -> U32(0)
      [] a.m # 0 /\ a.e >= -23 /\ a.e < 0 -> U32(a.m \div Pow2(0 - a.e))
      [] a.m # 0 /\ a.e >= 0 /\ a.e <= 8 ->
            [hi |-> a.m \div Pow2(16 - a.e), lo |-> (a.m % Pow2(16 - a.e)) * Pow2(a.e)]

\* the float32 a caller holds for k hundredths (the literal k/100)
AmountOf(k) == F32Div100(F32FromU32(U32(k)))

(* ---------------------------------------------------------------------- *)
(* Message catalog: each struct is the ordered list of its field types     *)
(* ---------------------------------------------------------------------- *)
MsgGood == << "Cmd", "Big" >>
MsgBad == << "Cmd", "Small" >>
MsgYouAre == << "Id" >>
MsgYourGame == << "Id" >>
MsgSeatInfo == << "Id", "Small", "PlayerState", "Id", "Amount" >>
MsgGameInfo == << "Id", "Text", "GameType", "LimitType", "Amount", "Amount",
                  "Big", "Big", "Big", "Big" >>
MsgNotifyJoin == << "Id", "Id", "Small", "Amount" >>
MsgNotifyCancelGame == << "Id" >>
MsgNotifyLeave == << "Id", "Id" >>
MsgNotifyStartGame == << "Id" >>
MsgNotifyButton == << "Id", "Small" >>
MsgNotifySb == << "Id", "Small" >>
MsgBetReq == << "Id", "Amount", "Amount", "Amount" >>
MsgBalance == << "Amount", "Amount" >>
MsgNotifyRaise == << "Id", "Id", "Amount", "Amount" >>
MsgNotifyBb == << "Id", "Small" >>
MsgNotifyDraw == << "Id", "Id", "Seq", "Suit" >>
MsgNotifyShared == << "Id", "Seq", "Suit" >>
MsgNotifyHand == << "Id", "Id", "Small", "Small", "Small" >>
MsgNotifyEndGame == << "Id" >>
MsgNotifyChat == << "Id", "Id", "Text" >>
MsgGameStage == << "Id", "GameStage" >>
MsgShowCards == << "Id", "Id", "Cards" >>
MsgNotifyWin == << "Id", "Id", "Amount" >>
MsgPlayerInfo == << "Id", "Amount", "Text", "Text" >>

\* the registry: command tag -> struct type
msgTypes ==
    (GOOD :> MsgGood) @@ (BAD :> MsgBad) @@ (YOU_ARE :> MsgYouAre) @@
    (YOUR_GAME :> MsgYourGame) @@ (SEAT_INFO :> MsgSeatInfo) @@
    (GAME_INFO :> MsgGameInfo) @@ (NOTIFY_JOIN :> MsgNotifyJoin) @@
    (NOTIFY_CANCEL_GAME :> MsgNotifyCancelGame) @@
    (NOTIFY_LEAVE :> MsgNotifyLeave) @@
    (NOTIFY_START_GAME :> MsgNotifyStartGame) @@
    (NOTIFY_BUTTON :> MsgNotifyButton) @@ (NOTIFY_SB :> MsgNotifySb) @@
    (BET_REQ :> MsgBetReq) @@ (BALANCE :> MsgBalance) @@
    (NOTIFY_RAISE :> MsgNotifyRaise) @@ (NOTIFY_BB :> MsgNotifyBb) @@
    (NOTIFY_DRAW :> MsgNotifyDraw) @@ (NOTIFY_SHARED :> MsgNotifyShared) @@
    (NOTIFY_HAND :> MsgNotifyHand) @@ (NOTIFY_END_GAME :> MsgNotifyEndGame) @@
    (NOTIFY_CHAT :> MsgNotifyChat) @@ (GAME_STAGE :> MsgGameStage) @@
    (SHOW_CARDS :> MsgShowCards) @@ (NOTIFY_WIN :> MsgNotifyWin)

\* the nil message / nil reflect.Type
Nil == << >>

(* ---------------------------------------------------------------------- *)
(* Primitive encoders (the write methods)                                  *)
(* ---------------------------------------------------------------------- *)
\* binary.Write of a one-byte value (Cmd, Small, Op, LimitType, GameType)
Byte_write(v) == << v % Uint8Mod >>

Id_write(i) == BE32(Int32ToU32(i))

Big_write(n) == BE32(n)

Amount_write(n) == Big_write(F32ToU32(F32Mul100(n)))

\* the text written NUL-terminated instead of length-prefixed
Text_write_cstr(t) == t \o << 0 >>

Text_write(t) == << Len(t) % Uint8Mod >> \o t

\* v.write(&buf) for a writable value v of type t
write(t, v) ==
    CASE t = "Text" -> Text_write(v)
      [] t = "Amount" -> Amount_write(v)
      [] t = "Big" -> Big_write(v)
      [] t = "Id" -> Id_write(v)
      [] t \in {"Cmd", "Small", "Op", "LimitType", "GameType"} -> Byte_write(v)

RECURSIVE writeBody(_, _)
writeBody(body, i) ==
    IF i > Len(body) THEN << >>
    ELSE write(body[i].t, body[i].v) \o writeBody(body, i + 1)

\* the length prefix counting its own two bytes as well
writeMessage_self(w, body) ==
    LET buf == writeBody(body, 1)
    IN  w \o BE16((Len(buf) + 2) % Uint16Mod) \o buf

\* writeMessage(w, body...): the sink w after the call
writeMessage(w, body) ==
    LET buf == writeBody(body, 1)
    IN  w \o BE16(Len(buf) % Uint16Mod) \o buf

(* ---------------------------------------------------------------------- *)
(* Primitive decoders.  s is the unread part of the byte source; each      *)
(* result carries the unread part left (rest) and whether the source       *)
(* delivered every byte asked for (ok).                                    *)
(* ---------------------------------------------------------------------- *)
Zeros(n) == [i \in 1..n |-> 0]

\* io.ReadFull(r, make([]byte, n))
ReadFull(s, n) ==
    LET k == IF n <= Len(s) THEN n ELSE Len(s)
    IN  [data |-> SubSeq(s, 1, k), k |-> k, ok |-> k = n,
         rest |-> SubSeq(s, k + 1, Len(s))]

readByte(s) ==
    LET r == ReadFull(s, 1)
    IN  [v |-> IF r.ok THEN r.data[1] ELSE 0, rest |-> r.rest, ok |-> r.ok]

readInt(s) ==
    LET r == ReadFull(s, 4)
    IN  [v |-> IF r.ok
               THEN [hi |-> r.data[1] * Uint8Mod + r.data[2],
                     lo |-> r.data[3] * Uint8Mod + r.data[4]]
               ELSE U32(0),
         rest |-> r.rest, ok |-> r.ok]

\* size + 1 is computed in uint8 before it is widened to uint16
readString(s) ==
    LET h == readByte(s)
        b == ReadFull(h.rest, h.v)
    IN  [v |-> b.data \o Zeros(h.v - b.k), n |-> (h.v + 1) % Uint8Mod,
         size |-> h.v, rest |-> b.rest, ok |-> h.ok /\ b.ok]

\* the loop of Cards.read: card i is made of the next two readByte results,
\* and a readByte past the end of the source yields 0 and reads nothing
readCardList(s, n) ==
    LET k == IF 2 * n <= Len(s) THEN 2 * n ELSE Len(s)
        at(j) == IF j <= k THEN s[j] ELSE 0
    IN  [v |-> [i \in 1..n |-> [seq |-> at(2 * i - 1), suit |-> at(2 * i)]],
         rest |-> SubSeq(s, k + 1, Len(s)), ok |-> k = 2 * n]

\* the count 2n+1 computed in uint8, as readString computes size+1
Cards_read_u8(s) ==
    LET h == readByte(s)
        l == readCardList(h.rest, h.v)
    IN  [v |-> l.v, n |-> (2 * h.v + 1) % Uint8Mod, need |-> 2 * h.v + 1,
         l255 |-> FALSE, rest |-> l.rest, ok |-> h.ok /\ l.ok]

\* each read method: the value, the byte count it reports (n), the bytes
\* the field occupies on the wire (need), whether it is a text of length
\* byte 255 (l255)
Cards_read(s) ==
    LET h == readByte(s)
        l == readCardList(h.rest, h.v)
    IN  [v |-> l.v, n |-> (2 * h.v + 1) % Uint16Mod, need |-> 2 * h.v + 1,
         l255 |-> FALSE, rest |-> l.rest, ok |-> h.ok /\ l.ok]

Text_read(s) ==
    LET r == readString(s)
    IN  [v |-> r.v, n |-> r.n, need |-> r.size + 1,
         l255 |-> (r.size = Uint8Mod - 1), rest |-> r.rest, ok |-> r.ok]

\* Cmd, Small, Op, LimitType, GameStage, PlayerState, GameType, Seq, Suit
Byte_read(s) ==
    LET r == readByte(s)
    IN  [v |-> r.v, n |-> 1, need |-> 1, l255 |-> FALSE, rest |-> r.rest, ok |-> r.ok]

Big_read(s) ==
    LET r == readInt(s)
    IN  [v |-> r.v, n |-> 4, need |-> 4, l255 |-> FALSE, rest |-> r.rest, ok |-> r.ok]

Amount_read(s) ==
    LET r == readInt(s)
    IN  [v |-> F32Div100(F32FromU32(r.v)), n |-> 4, need |-> 4, l255 |-> FALSE,
         rest |-> r.rest, ok |-> r.ok]

Id_read(s) ==
    LET r == readInt(s)
    IN  [v |-> U32ToInt32(r.v), n |-> 4, need |-> 4, l255 |-> FALSE,
         rest |-> r.rest, ok |-> r.ok]

\* w.read(r) for the field type t
read(t, s) ==
    CASE t = "Cards" -> Cards_read(s)
      [] t = "Text" -> Text_read(s)
      [] t = "Big" -> Big_read(s)
      [] t = "Amount" -> Amount_read(s)
      [] t = "Id" -> Id_read(s)
      [] OTHER -> Byte_read(s)

(* ---------------------------------------------------------------------- *)
(* ReadMsg                                                                 *)
(* ---------------------------------------------------------------------- *)
\* size -= n on the uint16 counter
Sub16(size, n) == (size - n) % Uint16Mod

\* the test size < 0 on the uint16 counter
SizeBelowZero(size) == size < 0

\* the test off by one: size > 1
SizeAboveOne(size) == size > 1

\* the test size > 0 after the last field
SizeAboveZero(size) == size > 0

\* one pass of the loop body for field f: r is what w.read(r) returned
readField(st, r) ==
    [st EXCEPT !.rest = r.rest, !.size = Sub16(st.size, r.n),
               !.vals = Append(st.vals, r.v),
               !.need = st.need + r.need,
               !.ok = st.ok /\ r.ok,
               !.l255 = st.l255 \/ r.l255]

\* the loop over the struct's fields, from field f, st the locals so far
RECURSIVE readFields(_, _, _)
readFields(typ, f, st) ==
    IF f > Len(typ)
    THEN IF SizeAboveZero(st.size)
         THEN [st EXCEPT !.err = "TooLong"]
         ELSE [st EXCEPT !.err = "nil", !.msg = st.vals]
    ELSE Only({ IF SizeBelowZero(nx.size)
                THEN [nx EXCEPT !.err = "TooShort"]
                ELSE readFields(typ, f + 1, nx) :
                nx \in { readField(st, r) : r \in { read(typ[f], st.rest) } } })

\* the locals of ReadMsg once the length (in h) and the tag (in t) are read
readHeader(h, t) ==
    [err |-> "nil", c |-> t.v, msg |-> Nil, rest |-> t.rest,
     declared |-> h.data[1] * Uint8Mod + h.data[2],
     size |-> Sub16(h.data[1] * Uint8Mod + h.data[2], 1),
     vals |-> << >>, need |-> 0, ok |-> t.ok, l255 |-> FALSE,
     known |-> t.v \in DOMAIN msgTypes]

\* ReadMsg(r) on the unread bytes s: err, c and msg are its results, rest
\* the unread bytes it leaves, the other fields what the call went through
ReadMsg(s) ==
    LET h == ReadFull(s, 2)
    IN  IF ~h.ok
        THEN [err |-> IF h.k = 0 THEN "EOF" ELSE "ErrUnexpectedEOF", c |-> 0,
              msg |-> Nil, rest |-> h.rest, declared |-> 0, size |-> 0,
              vals |-> << >>, need |-> 0, ok |-> FALSE, l255 |-> FALSE,
              known |-> FALSE]
        ELSE Only({ IF ~st.known
                    THEN [st EXCEPT !.err = "CannotDeserialize"]
                    ELSE readFields(msgTypes[st.c], 1, st) :
                    st \in { readHeader(h, t) : t \in { readByte(h.rest) } } })

(* ---------------------------------------------------------------------- *)
(* Bounds and input samples                                                *)
(* ---------------------------------------------------------------------- *)
\* frames the peer sends in one run
MaxFrames == 2
\* the peer sends a frame only while at most this many bytes are unread
MaxUnread == 0
\* a mis-sized frame declares up to this many bytes more or less
MaxDelta == 2
\* Write* calls in one run
MaxWrites == 2

Fill(n, b) == [i \in 1..n |-> b]

Alice == << 97, 108, 105, 99, 101 >>
Secret == << 115, 101, 99, 114, 101, 116 >>

Variants == {"zero", "typical", "edge"}

\* a value of field type t
Sample(t, variant) ==
    CASE t = "Text" ->
            (CASE variant = "zero" -> << >>
               [] variant = "typical" -> Alice
               [] variant = "edge" -> Fill(255, 97))
      [] t = "Cards" ->
            (CASE variant = "zero" -> << >>
               [] variant = "typical" -> << [seq |-> 13, suit |-> 4], [seq |-> 1, suit |-> 1] >>
               [] variant = "edge" -> Fill(255, [seq |-> 12, suit |-> 3]))
      [] t = "Amount" ->
            (CASE variant = "zero" -> AmountOf(0)
               [] variant = "typical" -> AmountOf(1999)
               [] variant = "edge" -> AmountOf(53))
      [] t = "Big" ->
            (CASE variant = "zero" -> U32(0)
               [] variant = "typical" -> U32(14000)
               [] variant = "edge" -> [hi |-> 65535, lo |-> 65535])
      [] t = "Id" ->
            (CASE variant = "zero" -> 0
               [] variant = "typical" -> 7
               [] variant = "edge" -> -1)
      [] OTHER ->
            (CASE variant = "zero" -> 0
               [] variant = "typical" -> 3
               [] variant = "edge" -> 255)

SampleMsg(typ, variant) == [f \in 1..Len(typ) |-> Sample(typ[f], variant)]

(* ---------------------------------------------------------------------- *)
(* The peer: what the server puts on the wire for a message                *)
(* ---------------------------------------------------------------------- *)
\* the server also sends PLAYER_INFO, which the registry does not hold
peerTypes == msgTypes @@ (PLAYER_INFO :> MsgPlayerInfo)

\* rank and suit of each card, in order
wireCards(l) ==
    [j \in 1..(2 * Len(l)) |-> IF j % 2 = 1 THEN l[(j + 1) \div 2].seq ELSE l[j \div 2].suit]

\* the wire encoding of a field of type t
wireField(t, v) ==
    CASE t = "Cards" -> << Len(v) >> \o wireCards(v)
      [] t \in {"Seq", "Suit", "GameStage", "PlayerState"} -> << v >>
      [] OTHER -> write(t, v)

RECURSIVE wireBody(_, _, _)
wireBody(typ, vals, f) ==
    IF f > Len(typ) THEN << >>
    ELSE wireField(typ[f], vals[f]) \o wireBody(typ, vals, f + 1)

\* a frame for tag c that declares `declared` bytes: the tag and all the
\* fields, and zero bytes after them when it declares more than they take
wireFrame(c, typ, vals, declared) ==
    LET body == << c >> \o wireBody(typ, vals, 1)
    IN  BE16(declared) \o body \o
        (IF declared <= Len(body) THEN << >> ELSE Zeros(declared - Len(body)))

(* ---------------------------------------------------------------------- *)
(* State                                                                   *)
(* ---------------------------------------------------------------------- *)
VARIABLES
    inp,      \* the byte source r of ReadMsg: delivered and not yet read
    sent,     \* the frame the peer sent last
    nsent,    \* frames sent so far
    fpos,     \* offset in inp of the first byte of that frame, -1 once read
    rd,       \* the last ReadMsg call and its results
    out,      \* the sink w of the Write* helpers
    wr,       \* the last Write* call
    nwrites   \* Write* calls so far

vars == << inp, sent, nsent, fpos, rd, out, wr, nwrites >>
rvars == << inp, sent, nsent, fpos, rd >>
wvars == << out, wr, nwrites >>

NoSent == [c |-> 0, vals |-> << >>, declared |-> 0, exact |-> 0, whole |-> FALSE]

NoRead == [called |-> FALSE, err |-> "nil", c |-> 0, msg |-> Nil, declared |-> 0,
           need |-> 0, nfields |-> 0, ok |-> TRUE, l255 |-> FALSE,
           known |-> FALSE, consumed |-> 0, onFrame |-> FALSE]

NoWrite == [called |-> FALSE, helper |-> "", body |-> << >>, pre |-> << >>]

Init ==
    /\ inp = << >>
    /\ sent = NoSent
    /\ nsent = 0
    /\ fpos = -1
    /\ rd = NoRead
    /\ out = << >>
    /\ wr = NoWrite
    /\ nwrites = 0

(* ---------------------------------------------------------------------- *)
(* Decoding side                                                           *)
(* ---------------------------------------------------------------------- *)
\* declared lengths of a frame whose tag and fields take `exact` bytes:
\* right, off by up to MaxDelta, short by the 256 values of a length byte, 0
DeclaredLengths(exact) ==
    ({0, exact - Uint8Mod} \cup {exact + d : d \in (0 - MaxDelta)..MaxDelta})
        \cap (0..(Uint16Mod - 1))

\* bytes the tag and the fields of the sample message take
ExactLength(c, variant) ==
    1 + Len(wireBody(peerTypes[c], SampleMsg(peerTypes[c], variant), 1))

\* the complete frames the peer may send, well-formed or mis-sized
WholeFrames ==
    UNION { { [c |-> c, variant |-> variant, declared |-> declared,
               exact |-> ExactLength(c, variant), whole |-> TRUE,
               bytes |-> wireFrame(c, peerTypes[c],
                                   SampleMsg(peerTypes[c], variant), declared)] :
              declared \in DeclaredLengths(ExactLength(c, variant)) } :
            << c, variant >> \in (DOMAIN peerTypes) \X Variants }

\* the well-formed frames cut short: the source ends inside the frame
TruncatedFrames ==
    UNION { { [f EXCEPT !.whole = FALSE, !.bytes = SubSeq(f.bytes, 1, cut)] :
              cut \in {1, 2, 3, Len(f.bytes) - 1} } :
            f \in { g \in WholeFrames : g.declared = g.exact } }

\* the peer may send: frames are left, and the reader has kept up
CanSend == nsent < MaxFrames /\ Len(inp) <= MaxUnread

\* the bytes of frame f reach the source
Deliver(f) ==
    /\ inp' = inp \o f.bytes
    /\ sent' = [c |-> f.c, vals |-> SampleMsg(peerTypes[f.c], f.variant),
                declared |-> f.declared, exact |-> f.exact, whole |-> f.whole]
    /\ nsent' = nsent + 1
    /\ fpos' = Len(inp)
    /\ rd' = NoRead
    /\ UNCHANGED wvars

\* the peer sends a complete frame
PeerSend ==
    /\ CanSend
    /\ \E f \in WholeFrames : Deliver(f)

\* the peer sends a frame of which the source delivers only a part
PeerSendTruncated ==
    /\ CanSend
    /\ \E f \in TruncatedFrames : Deliver(f)

\* one call of ReadMsg on the source
DoReadMsg ==
    \E r \in { ReadMsg(inp) } :
        /\ inp' = r.rest
        /\ rd' = [called |-> TRUE, err |-> r.err, c |-> r.c, msg |-> r.msg,
                  declared |-> r.declared, need |-> r.need,
                  nfields |-> Len(r.vals), ok |-> r.ok,
                  l255 |-> r.l255, known |-> r.known,
                  consumed |-> Len(inp) - Len(r.rest),
                  onFrame |-> (fpos = 0 /\ Len(inp) > 0)]
        /\ fpos' = IF fpos > 0 /\ fpos >= Len(inp) - Len(r.rest)
                   THEN fpos - (Len(inp) - Len(r.rest)) ELSE -1
        /\ UNCHANGED << sent, nsent >>
        /\ UNCHANGED wvars

(* ---------------------------------------------------------------------- *)
(* Encoding side: the Write* helpers                                       *)
(* ---------------------------------------------------------------------- *)
TextArgs == { << >>, Alice, Secret, Fill(255, 97), Fill(256, 97) }
IdArgs == { 7, -1 }
SmallArgs == { 0, 255 }
AmountArgs == { AmountOf(53), AmountOf(1999) }
BigArgs == { U32(2), U32(9) }
LimitArgs == { 1, 3 }
OpArgs == { 0, 3 }

A(t, v) == [t |-> t, v |-> v]

\* Write* calls are left in this run
CanWrite == nwrites < MaxWrites

\* helper calls writeMessage(w, body...)
Call(helper, body) ==
    /\ out' = writeMessage(out, body)
    /\ wr' = [called |-> TRUE, helper |-> helper, body |-> body, pre |-> out]
    /\ nwrites' = nwrites + 1
    /\ UNCHANGED rvars

WriteLogin ==
    \E nick \in TextArgs, pass \in TextArgs \ {<< >>, Alice} :
        /\ CanWrite /\ Call("WriteLogin", << A("Cmd", LOGIN), A("Text", nick), A("Text", pass) >>)

WriteLogout == /\ CanWrite /\ Call("WriteLogout", << A("Cmd", LOGOUT) >>)

WriteStartGame ==
    \E numSeats \in BigArgs, required \in {U32(2)}, l \in LimitArgs,
       low \in {AmountOf(53)}, high \in AmountArgs :
        /\ CanWrite /\ Call("WriteStartGame",
             << A("Cmd", START_GAME),
                A("Text", << 84, 101, 115, 116, 32, 84, 97, 98, 108, 101 >>),
                A("GameType", GT_TEXAS_HOLDEM), A("LimitType", l),
                A("Amount", low), A("Amount", high),
                A("Big", numSeats), A("Big", required),
                A("Big", U32(14000)), A("Big", U32(3600000)), A("Small", 0) >>)

WriteFold == \E gid \in IdArgs : /\ CanWrite /\ Call("WriteFold", << A("Cmd", FOLD), A("Id", gid) >>)

WriteSeatQuery ==
    \E gid \in IdArgs : /\ CanWrite /\ Call("WriteSeatQuery", << A("Cmd", SEAT_QUERY), A("Id", gid) >>)

WriteGameQuery ==
    \E l \in LimitArgs, OpSeats \in OpArgs, numSeats \in {9}, OpJoined \in {1},
       joined \in SmallArgs, OpWaiting \in {2}, waiting \in {0} :
        /\ CanWrite /\ Call("WriteGameQuery",
             << A("Cmd", GAME_QUERY), A("GameType", GT_TEXAS_HOLDEM),
                A("LimitType", l), A("Op", OpSeats), A("Small", numSeats),
                A("Op", OpJoined), A("Small", joined), A("Op", OpWaiting),
                A("Small", waiting) >>)

WriteJoin ==
    \E gid \in IdArgs, seat \in SmallArgs, amt \in AmountArgs :
        /\ CanWrite /\ Call("WriteJoin", << A("Cmd", JOIN), A("Id", gid), A("Small", seat), A("Amount", amt) >>)

WriteWatch == \E gid \in IdArgs : /\ CanWrite /\ Call("WriteWatch", << A("Cmd", WATCH), A("Id", gid) >>)

WriteUnwatch == \E gid \in IdArgs : /\ CanWrite /\ Call("WriteUnwatch", << A("Cmd", UNWATCH), A("Id", gid) >>)

WriteLeave == \E gid \in IdArgs : /\ CanWrite /\ Call("WriteLeave", << A("Cmd", LEAVE), A("Id", gid) >>)

WriteRaise ==
    \E gid \in IdArgs, raiseAmount \in AmountArgs :
        /\ CanWrite /\ Call("WriteRaise", << A("Cmd", RAISE), A("Id", gid), A("Amount", raiseAmount) >>)

WriteBalanceQuery == /\ CanWrite /\ Call("WriteBalanceQuery", << A("Cmd", BALANCE_QUERY) >>)

WriteSitOut == \E gid \in IdArgs : /\ CanWrite /\ Call("WriteSitOut", << A("Cmd", SIT_OUT), A("Id", gid) >>)

WriteComeBack == \E gid \in IdArgs : /\ CanWrite /\ Call("WriteComeBack", << A("Cmd", COME_BACK), A("Id", gid) >>)

WriteChat == \E msg \in TextArgs : /\ CanWrite /\ Call("WriteChat", << A("Cmd", CHAT), A("Text", msg) >>)

WritePlayerQuery ==
    \E pid \in IdArgs : /\ CanWrite /\ Call("WritePlayerQuery", << A("Cmd", PLAYER_QUERY), A("Id", pid) >>)

(* ---------------------------------------------------------------------- *)
(* Specifications                                                          *)
(* ---------------------------------------------------------------------- *)
\* the decoding side: frames arrive and ReadMsg is called
Next ==
    \/ PeerSend
    \/ PeerSendTruncated
    \/ DoReadMsg

Spec == Init /\ [][Next]_vars

\* the encoding side: the Write* helpers write to one sink
WriteNext ==
    \/ WriteLogin
    \/ WriteLogout
    \/ WriteStartGame
    \/ WriteFold
    \/ WriteSeatQuery
    \/ WriteGameQuery
    \/ WriteJoin
    \/ WriteWatch
    \/ WriteUnwatch
    \/ WriteLeave
    \/ WriteRaise
    \/ WriteBalanceQuery
    \/ WriteSitOut
    \/ WriteComeBack
    \/ WriteChat
    \/ WritePlayerQuery

WriteSpec == Init /\ [][WriteNext]_vars

(* ---------------------------------------------------------------------- *)
(* Properties                                                              *)
(* ---------------------------------------------------------------------- *)
IoErrors == {"EOF", "ErrUnexpectedEOF"}

\* the last step was a ReadMsg call that got its length prefix
Parsed == rd.called /\ rd.err \notin IoErrors

\* the last ReadMsg call began at the first byte of the frame sent last,
\* and the source held the whole of that frame
ReadWholeFrame == rd.called /\ rd.onFrame /\ sent.whole

\* the last Write* call carried a text longer than a length byte can say
LongTextArg ==
    wr.called /\ \E i \in 1..Len(wr.body) :
        wr.body[i].t = "Text" /\ Len(wr.body[i].v) > Uint8Mod - 1

\* the bytes the last Write* call added to the sink
Emitted == SubSeq(out, Len(wr.pre) + 1, Len(out))

\* bytes a writable value of type t takes on the wire
WireSize(t, v) ==
    CASE t = "Text" -> 1 + Len(v)
      [] t \in {"Big", "Amount", "Id"} -> 4
      [] OTHER -> 1

RECURSIVE Offset(_, _)
\* bytes the arguments before the i-th take
Offset(body, i) ==
    IF i <= 1 THEN 0
    ELSE Offset(body, i - 1) + WireSize(body[i - 1].t, body[i - 1].v)

\* C1: a frame of a registered tag that declares fewer bytes than 1 + the
\* bytes its schema's fields need makes ReadMsg fail with the too-short
\* error, and ReadMsg returns no message for it.
C1_ShortFrameDetected ==
    (Parsed /\ rd.known /\ rd.declared < 1 + rd.need)
        => (rd.err = "TooShort" /\ rd.msg = Nil)

\* C2: on a frame whose tag is not in the registry ReadMsg fails with the
\* unknown-command error for that tag, returns no message, and has consumed
\* exactly 2 + declared bytes, so the source stands at the next frame.
C2_UnknownTagSkipsFrame ==
    (ReadWholeFrame /\ sent.declared >= 1 /\ sent.c \notin DOMAIN msgTypes)
        => /\ rd.err = "CannotDeserialize"
           /\ rd.c = sent.c
           /\ rd.msg = Nil
           /\ rd.consumed = 2 + rd.declared

\* C3: a well-formed frame of a registered tag with in-domain field values
\* is read back by ReadMsg with no error, the same tag and a message equal
\* field by field to the one written.
C3_RoundTrip ==
    (ReadWholeFrame /\ sent.declared = sent.exact /\ sent.c \in DOMAIN msgTypes)
        => /\ rd.err = "nil"
           /\ rd.c = sent.c
           /\ rd.msg = sent.vals

\* C4: whenever ReadMsg returns without error it has consumed exactly
\* 2 + the declared length bytes of the source.
C4_OneFramePerCall ==
    (rd.called /\ rd.err = "nil") => rd.consumed = 2 + rd.declared

\* C5: when the source runs out at any point of a ReadMsg call, ReadMsg
\* returns the source's failure and no message.
C5_SourceFailurePropagated ==
    (rd.called /\ ~rd.ok) => (rd.err \in IoErrors /\ rd.msg = Nil)

\* C6: a Write* call carrying a text longer than 255 bytes fails fast: it
\* emits nothing to the sink.
C6_LongTextFailsFast ==
    LongTextArg => out = wr.pre

\* C7: a frame of a registered tag that declares more bytes than 1 + the
\* bytes its schema's fields occupy makes ReadMsg fail with the too-long
\* error, after all the schema's fields were decoded, and return no message.
C7_LongFrameDetected ==
    (Parsed /\ rd.known /\ rd.declared > 1 + rd.need)
        => /\ rd.err = "TooLong"
           /\ rd.msg = Nil
           /\ rd.nfields = Len(msgTypes[rd.c])

\* ReadMsg has rejected as too long a whole frame, read from its first
\* byte, that declares more than its tag and fields take
C7_Witness ==
    /\ ReadWholeFrame /\ rd.known /\ rd.c = sent.c
    /\ sent.declared > sent.exact
    /\ rd.declared = sent.declared /\ rd.declared > 1 + rd.need
    /\ rd.err = "TooLong"

\* C8 as stated: WriteLogin with nick "alice" and password "secret" appends
\* exactly 00 0D 01 05 61 6C 69 63 65 06 73 65 63 72 65 74 to the sink
\* (length prefix 13).
C8_LoginScenario ==
    (wr.called /\ wr.helper = "WriteLogin"
               /\ wr.body[2].v = Alice /\ wr.body[3].v = Secret)
        => out = wr.pre \o << 0, 13, 1, 5, 97, 108, 105, 99, 101,
                              6, 115, 101, 99, 114, 101, 116 >>

\* C8 amended: WriteLogin with nick "alice" and password "secret" appends
\* exactly 00 0E 01 05 61 6C 69 63 65 06 73 65 63 72 65 74 to the sink:
\* the length prefix is 14, the tag byte and the two length-prefixed texts.
C8_LoginScenarioAmended ==
    (wr.called /\ wr.helper = "WriteLogin"
               /\ wr.body[2].v = Alice /\ wr.body[3].v = Secret)
        => out = wr.pre \o << 0, 14, 1, 5, 97, 108, 105, 99, 101,
                              6, 115, 101, 99, 114, 101, 116 >>

\* WriteLogin("alice", "secret") has run, on a sink that already held a frame
C8_Witness ==
    /\ wr.called /\ wr.helper = "WriteLogin"
    /\ wr.body[2].v = Alice /\ wr.body[3].v = Secret
    /\ Len(wr.pre) > 0
    /\ Len(out) = Len(wr.pre) + 16

\* C9: a Write* call with in-domain arguments appends one frame to the
\* sink: a 2-byte big-endian length, the command tag, and the fields in
\* argument order; the length counts the tag and the field bytes and not
\* itself.
C9_FrameLength ==
    (wr.called /\ ~LongTextArg)
        => /\ SubSeq(out, 1, Len(wr.pre)) = wr.pre
           /\ Len(Emitted) = 2 + Offset(wr.body, Len(wr.body) + 1)
           /\ Emitted[1] * Uint8Mod + Emitted[2] = Len(Emitted) - 2
           /\ wr.body[1].t = "Cmd" /\ Emitted[3] = wr.body[1].v
           /\ \A i \in 1..Len(wr.body) :
                SubSeq(Emitted, 3 + Offset(wr.body, i), 2 + Offset(wr.body, i + 1))
                    = write(wr.body[i].t, wr.body[i].v)

\* WriteLogin has run with two texts of the full 255 bytes, on a sink that
\* already held a frame: the frame declares 513 bytes
C9_Witness ==
    /\ wr.called /\ ~LongTextArg /\ wr.helper = "WriteLogin"
    /\ Len(wr.body[2].v) = Uint8Mod - 1 /\ Len(wr.body[3].v) = Uint8Mod - 1
    /\ Len(wr.pre) > 0
    /\ Emitted[1] = 2 /\ Emitted[2] = 1

\* C10: the counter being a uint16, a frame of a registered tag with no
\* text of length 255 whose declared length differs from 1 + the bytes its
\* schema's fields occupy (0 included) gets a non-nil error and a nil
\* message: the counter never wraps to exactly 0.
C10_MisSizedNeverAccepted ==
    (Parsed /\ rd.known /\ ~rd.l255 /\ rd.declared # 1 + rd.need)
        => (rd.err # "nil" /\ rd.msg = Nil)

\* ReadMsg has rejected a whole frame that declares less than it holds,
\* its counter having wrapped below zero; the frame carries a card list
C10_Witness ==
    /\ ReadWholeFrame /\ rd.known /\ ~rd.l255 /\ rd.c = sent.c
    /\ rd.c = SHOW_CARDS /\ rd.need > Uint8Mod
    /\ rd.declared < 1 + rd.need
    /\ rd.err # "nil" /\ rd.msg = Nil

====
